---- MODULE Spec2Model ----
(***************************************************************************)
(* Model of app.py: a Flask service with four POST endpoints               *)
(* (/remove-background, /resize, /crop-below-mouth, /process-image), the   *)
(* resize backends (PIL, ImageMagick, GraphicsMagick), the Bria.ai         *)
(* background-removal adapter and the handlers' cleanup.                   *)
(*                                                                         *)
(* Strings the code inspects character by character (file names, integer   *)
(* query parameters) are sequences of one-character strings.               *)
(***************************************************************************)
EXTENDS Integers, Sequences, FiniteSets, TLC

\* ------------------------------------------------------------------ bounds

\* Image and target sides are drawn from 1..MaxDim (plus the sides below).
MaxDim == 2

\* Sides at which Python's float arithmetic loses a pixel: int(11*(15/11)) = 14
\* and int(49*(1/49)) = 0.
RoundingSizes == {<<11, 11>>, <<49, 49>>}
RoundingTargets == {<<15, 15>>}

\* ------------------------------------------------------- program constants

ALLOWED_EXTENSIONS == {<<"p", "n", "g">>, <<"j", "p", "g">>, <<"j", "p", "e", "g">>}

Str(v) == [type |-> "str", value |-> v]
Tuple(v) == [type |-> "tuple", value |-> v]

DEFAULT_RESIZE_PARAMS ==
    [RESIZE_MODE |-> "fit", KEEP_RATIO |-> "true", RESAMPLING |-> "hanning",
     CROP_POSITION |-> "center", BG_COLOR |-> Str("white"),
     BG_ALPHA |-> <<"2", "5", "5">>]

\* ------------------------------------------------------------ str methods

Upper == <<"A", "B", "C", "D", "E", "F", "G", "H", "I", "J", "K", "L", "M",
           "N", "O", "P", "Q", "R", "S", "T", "U", "V", "W", "X", "Y", "Z">>
Lower == <<"a", "b", "c", "d", "e", "f", "g", "h", "i", "j", "k", "l", "m",
           "n", "o", "p", "q", "r", "s", "t", "u", "v", "w", "x", "y", "z">>

\* str.lower() of one character
lower_char(c) ==
    IF \E i \in 1..26 : Upper[i] = c
    THEN Lower[CHOOSE i \in 1..26 : Upper[i] = c]
    ELSE c

\* str.lower() of a character sequence
lower(s) == [i \in 1..Len(s) |-> lower_char(s[i])]

\* str.lower() of the parameter words of the requests
lower_word(w) ==
    CASE w = "FILL" -> "fill"
      [] w = "TOP" -> "top"
      [] w = "PIL" -> "pil"
      [] w = "True" -> "true"
      [] OTHER -> w

\* '.' in filename
has_dot(s) == \E i \in 1..Len(s) : s[i] = "."

\* filename.rsplit('.', 1)[1], for a filename that holds a '.'
rsplit_ext(s) ==
    LET last == CHOOSE i \in 1..Len(s) :
                    s[i] = "." /\ \A j \in (i + 1)..Len(s) : s[j] # "."
    IN  SubSeq(s, last + 1, Len(s))

\* filename.lower().endswith('.png')
endswith_png(s) ==
    LET l == lower(s)
    IN  Len(l) >= 4 /\ SubSeq(l, Len(l) - 3, Len(l)) = <<".", "p", "n", "g">>

\* allowed_file without the test of the extension
allowed_file_any_extension(filename) == has_dot(filename)

allowed_file(filename) ==
    has_dot(filename) /\ lower(rsplit_ext(filename)) \in ALLOWED_EXTENSIONS

\* The truthy words of the boolean parameters
truthy(w) == lower_word(w) \in {"true", "1", "t", "y", "yes"}

\* ------------------------------------------------------------------ int()

Digits == <<"0", "1", "2", "3", "4", "5", "6", "7", "8", "9">>
is_digit(c) == \E i \in 1..10 : Digits[i] = c
digit_value(c) == (CHOOSE i \in 1..10 : Digits[i] = c) - 1

RECURSIVE digits_value(_)
digits_value(s) ==
    IF s = <<>> THEN 0
    ELSE 10 * digits_value(SubSeq(s, 1, Len(s) - 1)) + digit_value(s[Len(s)])

\* int(s) of a str: [ok |-> FALSE] stands for ValueError
int_of(s) ==
    LET neg == Len(s) >= 1 /\ s[1] = "-"
        body == IF neg THEN SubSeq(s, 2, Len(s)) ELSE s
    IN  IF body # <<>> /\ \A i \in 1..Len(body) : is_digit(body[i])
        THEN [ok |-> TRUE, value |-> IF neg THEN 0 - digits_value(body)
                                     ELSE digits_value(body)]
        ELSE [ok |-> FALSE, value |-> 0]

\* ------------------------------------------------------- float arithmetic
(***************************************************************************)
(* The code computes ratio = t / o (IEEE-754 double division of two        *)
(* positive ints) and int(a * ratio) (double multiplication, truncation).  *)
(* With 2^e <= t/o < 2^(e+1) and s = 52 - e, the quotient is               *)
(*     fl(t/o) = (t*2^s + d) / (o*2^s),  d = (o - r if 2r > o else -r),    *)
(* r = t*2^s mod o (2r = o cannot happen for o < 2^52), so that            *)
(*     a * fl(t/o) = a*t/o + a*d / (o*2^s)   exactly.                      *)
(* When o does not divide a*t the product lies strictly between two        *)
(* integers, far from both, and truncates to a*t \div o.  When it does,    *)
(* the product is k = a*t/o plus a tiny error: a negative error rounds to  *)
(* the double below k iff it exceeds half the spacing of the doubles below *)
(* k (a tie rounds to k, whose mantissa is even), and then int() gives     *)
(* k - 1.                                                                  *)
(***************************************************************************)

RECURSIVE pow2(_)
pow2(n) == IF n = 0 THEN 1 ELSE 2 * pow2(n - 1)

\* floor(log2(n)) of a positive int
RECURSIVE ilog2(_)
ilog2(n) == IF n < 2 THEN 0 ELSE 1 + ilog2(n \div 2)

\* e with 2^e <= t/o < 2^(e+1)
RECURSIVE exponent_from(_, _, _)
exponent_from(t, o, e) ==
    IF t >= o
    THEN IF t >= 2 * o THEN exponent_from(t, 2 * o, e + 1) ELSE e
    ELSE exponent_from(2 * t, o, e - 1)
quotient_exponent(t, o) == exponent_from(t, o, 0)

\* (t * 2^s) mod o
RECURSIVE shifted_mod(_, _, _)
shifted_mod(t, s, o) ==
    IF s = 0 THEN t % o ELSE (2 * shifted_mod(t, s - 1, o)) % o

\* d above: the rounding error of t / o, scaled by o * 2^(52 - e)
division_error(t, o) ==
    LET r == shifted_mod(t, 52 - quotient_exponent(t, o), o)
    IN  IF 2 * r > o THEN o - r ELSE 0 - r

\* int(a * (t / o)) for positive ints a, t, o
int_mul_ratio(a, t, o) ==
    LET k == (a * t) \div o
        d == division_error(t, o)
        e == quotient_exponent(t, o)
        f == ilog2(k)
        \* the doubles below k are 2^(g - 52) apart
        g == IF k = pow2(f) THEN f - 1 ELSE f
        \* a*|d| / (o*2^(52-e)) > 2^(g-53)  <=>  a*|d|*2^x > o,  x = e + 1 - g
        x == e + 1 - g
        lhs == a * (0 - d) * (IF x >= 0 THEN pow2(x) ELSE 1)
        rhs == o * (IF x >= 0 THEN 1 ELSE pow2(0 - x))
    IN  IF (a * t) % o # 0 THEN k
        ELSE IF d < 0 /\ lhs > rhs THEN k - 1
        ELSE k

\* -------------------------------------------------------------- PIL images
(***************************************************************************)
(* An image is its mode, its size and the operations that produced its     *)
(* pixels from the decoded upload: two images hold the same pixels iff     *)
(* mode, size and ops agree.                                               *)
(***************************************************************************)

NoImage == [mode |-> "none", size |-> <<0, 0>>, ops |-> <<>>]
Op(name, args) == [op |-> name, args |-> args]

\* Image.open of a decodable upload
image_open(mode, size) == [mode |-> mode, size |-> size, ops |-> <<>>]

\* Image.copy(): the same pixels in a new handle
image_copy(im) == im

\* Image.resize(size): ValueError "height and width must be > 0"; a copy when
\* the size is the image's own; resampled pixels otherwise
image_resize_raises(im, size) == size[1] < 1 \/ size[2] < 1
image_resize(im, size) ==
    IF im.size = size THEN image_copy(im)
    ELSE [im EXCEPT !.size = size, !.ops = Append(@, Op("resize", size))]

\* Image.crop((left, top, right, bottom))
image_crop(im, box) ==
    [im EXCEPT !.size = <<box[3] - box[1], box[4] - box[2]>>,
               !.ops = Append(@, Op("crop", box))]

\* Image.convert(mode): an RGBA image converted to RGB loses its alpha
\* channel; nothing is composited
image_convert(im, mode) ==
    [im EXCEPT !.mode = mode, !.ops = Append(@, Op("convert", <<>>))]

\* canvas.paste(resized, (x, y), mask): the canvas of Image.new with the
\* resized image composited on it
image_paste(canvas_size, bg_alpha, resized, offset) ==
    [mode |-> "RGBA", size |-> canvas_size,
     ops |-> Append(resized.ops, Op("paste", <<offset[1], offset[2], bg_alpha>>))]

\* Whether an operation of an image's history composited it on a background
composited(im) == \E i \in 1..Len(im.ops) : im.ops[i].op = "paste"

\* ---------------------------------------------------------- resize_with_pil

\* bg_alpha of resize_params: int() with 255 on ValueError, limited to 0..255
bg_alpha_of(bg_alpha_str) ==
    LET v == int_of(bg_alpha_str)
        lo == IF v.value > 255 THEN 255 ELSE v.value
    IN  IF v.ok THEN (IF lo < 0 THEN 0 ELSE lo) ELSE 255

\* bg_color + (bg_alpha,) raises TypeError unless bg_color is a tuple
color_concat_raises(bg_color) == bg_color.type # "tuple"

\* ratio = min(width / orig_width, height / orig_height), as the pair (t, o)
\* of the division that gives it
fit_ratio(orig, width, height) ==
    IF width * orig[2] <= height * orig[1] THEN <<width, orig[1]>>
    ELSE <<height, orig[2]>>

\* ratio = max(width / orig_width, height / orig_height)
fill_ratio(orig, width, height) ==
    IF width * orig[2] >= height * orig[1] THEN <<width, orig[1]>>
    ELSE <<height, orig[2]>>

\* (new_width, new_height) = (int(orig_width * ratio), int(orig_height * ratio))
scaled_size(orig, ratio) ==
    <<int_mul_ratio(orig[1], ratio[1], ratio[2]),
      int_mul_ratio(orig[2], ratio[1], ratio[2])>>

\* Python's floor division by 2
floordiv2(n) == IF n >= 0 THEN n \div 2 ELSE 0 - ((1 - n) \div 2)

\* crop_origin with the four corners anchored as well
crop_origin_corners(crop_position, new, width, height) ==
    LET x == new[1] - width
        y == new[2] - height
    IN  CASE crop_position = "top" -> <<floordiv2(x), 0>>
          [] crop_position = "bottom" -> <<floordiv2(x), y>>
          [] crop_position = "left" -> <<0, floordiv2(y)>>
          [] crop_position = "right" -> <<x, floordiv2(y)>>
          [] crop_position = "top-left" -> <<0, 0>>
          [] crop_position = "top-right" -> <<x, 0>>
          [] crop_position = "bottom-left" -> <<0, y>>
          [] crop_position = "bottom-right" -> <<x, y>>
          [] OTHER -> <<floordiv2(x), floordiv2(y)>>

\* (left, top) of the fill crop
crop_origin(crop_position, new, width, height) ==
    CASE crop_position = "center" ->
            <<floordiv2(new[1] - width), floordiv2(new[2] - height)>>
      [] crop_position = "top" -> <<floordiv2(new[1] - width), 0>>
      [] crop_position = "bottom" ->
            <<floordiv2(new[1] - width), new[2] - height>>
      [] crop_position = "left" -> <<0, floordiv2(new[2] - height)>>
      [] crop_position = "right" ->
            <<new[1] - width, floordiv2(new[2] - height)>>
      [] OTHER -> <<floordiv2(new[1] - width), floordiv2(new[2] - height)>>

PilResult(ret, error, image, created, scaled, box) ==
    [ret |-> ret, error |-> error, image |-> image, created |-> created,
     scaled |-> scaled, box |-> box]
NoBox == <<0, 0, 0, 0>>

\* The fit branch
pil_fit(image, width, height, keep_ratio, bg_color, bg_alpha) ==
    LET orig == image.size
        new == scaled_size(orig, fit_ratio(orig, width, height))
        canvas == [mode |-> "RGBA", size |-> <<width, height>>, ops |-> <<>>]
        offset == <<floordiv2(width - new[1]), floordiv2(height - new[2])>>
        resized == image_resize(image, IF keep_ratio THEN new ELSE <<width, height>>)
        pasted == image_paste(<<width, height>>, bg_alpha, resized, offset)
    IN  IF color_concat_raises(bg_color)
        THEN PilResult("raise", "TypeError", NoImage, <<>>, <<0, 0>>, NoBox)
        ELSE IF keep_ratio
        THEN IF image_resize_raises(image, new)
             THEN PilResult("raise", "ValueError", NoImage, <<canvas>>, new, NoBox)
             ELSE PilResult("image", "", pasted, <<resized, pasted>>, new,
                            <<offset[1], offset[2], offset[1] + new[1],
                              offset[2] + new[2]>>)
        ELSE PilResult("image", "", resized, <<canvas, resized>>,
                       <<width, height>>, NoBox)

\* The fill branch
pil_fill(image, width, height, crop_position) ==
    LET orig == image.size
        new == scaled_size(orig, fill_ratio(orig, width, height))
        resized == image_resize(image, new)
        origin == crop_origin(crop_position, new, width, height)
        box == <<origin[1], origin[2], origin[1] + width, origin[2] + height>>
        cropped == image_crop(resized, box)
    IN  IF image_resize_raises(image, new)
        THEN PilResult("raise", "ValueError", NoImage, <<>>, new, NoBox)
        ELSE PilResult("image", "", cropped, <<resized, cropped>>, new, box)

\* resize_with_pil(image, width, height, resize_params): ret is "image" (the
\* image returned), "none" (None returned) or "raise"; created lists the
\* images the call created, the returned one last
resize_with_pil(image, width, height, resize_params) ==
    LET resize_mode == lower_word(resize_params.RESIZE_MODE)
        keep_ratio == truthy(resize_params.KEEP_RATIO)
        crop_position == lower_word(resize_params.CROP_POSITION)
        bg_color == resize_params.BG_COLOR
        bg_alpha == bg_alpha_of(resize_params.BG_ALPHA)
    IN  IF image.size = <<width, height>>
        THEN PilResult("image", "", image_copy(image), <<image_copy(image)>>,
                       image.size, NoBox)
        ELSE CASE resize_mode = "fit" ->
                    pil_fit(image, width, height, keep_ratio, bg_color, bg_alpha)
               [] resize_mode = "stretch" ->
                    PilResult("image", "", image_resize(image, <<width, height>>),
                              <<image_resize(image, <<width, height>>)>>,
                              <<width, height>>, NoBox)
               [] resize_mode = "fill" ->
                    pil_fill(image, width, height, crop_position)
               [] OTHER ->
                    PilResult("none", "", NoImage, <<>>, <<0, 0>>, NoBox)

\* ------------------------------------------- ImageMagick, GraphicsMagick

\* One option of a convert command line: -resize WxH, WxH! or WxH^ (arg "",
\* "!" or "^"), -extent WxH, -gravity g, -background, -filter, -alpha
Opt(opt, arg, w, h) == [opt |-> opt, arg |-> arg, w |-> w, h |-> h]

\* gravity_map.get(crop_position, 'center')
gravity_map(crop_position) ==
    CASE crop_position = "center" -> "center"
      [] crop_position = "top" -> "north"
      [] crop_position = "bottom" -> "south"
      [] crop_position = "left" -> "west"
      [] crop_position = "right" -> "east"
      [] OTHER -> "center"

\* The options the mode adds to the command (the same in both functions)
geometry_options(width, height, resize_params) ==
    LET resize_mode == lower_word(resize_params.RESIZE_MODE)
        keep_ratio == truthy(resize_params.KEEP_RATIO)
        crop_position == lower_word(resize_params.CROP_POSITION)
    IN  CASE resize_mode = "fit" ->
                IF keep_ratio
                THEN <<Opt("-resize", "", width, height),
                       Opt("-gravity", "center", 0, 0),
                       Opt("-extent", "", width, height)>>
                ELSE <<Opt("-resize", "!", width, height)>>
          [] resize_mode = "stretch" -> <<Opt("-resize", "!", width, height)>>
          [] resize_mode = "fill" ->
                <<Opt("-resize", "^", width, height),
                  Opt("-gravity", gravity_map(crop_position), 0, 0),
                  Opt("-extent", "", width, height)>>
          [] OTHER -> <<>>

\* cmd of resize_with_imagemagick, after 'convert' and the input path
resize_with_imagemagick(width, height, resize_params) ==
    LET bg_alpha == bg_alpha_of(resize_params.BG_ALPHA)
    IN  (IF bg_alpha < 255
         THEN <<Opt("-background", "", 0, 0), Opt("-alpha", "set", 0, 0)>>
         ELSE <<Opt("-background", "", 0, 0)>>)
        \o <<Opt("-filter", "", 0, 0)>>
        \o geometry_options(width, height, resize_params)

\* cmd of resize_with_graphicsmagick, after 'gm convert'
resize_with_graphicsmagick(width, height, resize_params) ==
    LET bg_alpha == bg_alpha_of(resize_params.BG_ALPHA)
    IN  <<Opt("-filter", "", 0, 0), Opt("-background", "", 0, 0)>>
        \o (IF bg_alpha < 255 THEN <<Opt("-alpha", "on", 0, 0)>> ELSE <<>>)
        \o geometry_options(width, height, resize_params)

\* The size -resize gives: WxH! is exact, WxH fits inside, WxH^ covers, the
\* sides rounded to the nearest pixel and at least 1
round_div(n, d) == (2 * n + d) \div (2 * d)
at_least_1(n) == IF n < 1 THEN 1 ELSE n
magick_resize_size(size, o) ==
    LET r == IF o.arg = "^" THEN fill_ratio(size, o.w, o.h)
             ELSE fit_ratio(size, o.w, o.h)
    IN  IF o.arg = "!" THEN <<o.w, o.h>>
        ELSE <<at_least_1(round_div(size[1] * r[1], r[2])),
               at_least_1(round_div(size[2] * r[1], r[2]))>>

\* One option applied by the tool: -resize resamples (a filter is always
\* given), -extent crops or pads to the size, the others set parameters
magick_apply(im, o) ==
    CASE o.opt = "-resize" ->
            [im EXCEPT !.size = magick_resize_size(im.size, o),
                       !.ops = Append(@, Op("resize", <<o.w, o.h>>))]
      [] o.opt = "-extent" ->
            [im EXCEPT !.size = <<o.w, o.h>>,
                       !.ops = Append(@, Op("extent", <<o.w, o.h>>))]
      [] OTHER -> im

\* subprocess.run(cmd) and Image.open(output_path): the image the tool writes
\* for a readable input. A JPEG file holds no alpha channel.
RECURSIVE magick_run(_, _)
magick_run(im, cmd) ==
    IF cmd = <<>> THEN im ELSE magick_run(magick_apply(im, Head(cmd)), Tail(cmd))
magick_output(im, cmd, png) ==
    LET out == magick_run(im, cmd)
    IN  IF png THEN out ELSE [out EXCEPT !.mode = "RGB"]

\* The gravity a command crops with ("" when it has none)
gravity_of(cmd) ==
    IF \E i \in 1..Len(cmd) : cmd[i].opt = "-gravity"
    THEN cmd[CHOOSE i \in 1..Len(cmd) : cmd[i].opt = "-gravity"].arg
    ELSE ""

\* ------------------------------------------------------- process_with_bria

\* What the remote API answers: the upload's status (0: requests raises), a
\* result_url or none, the download's status, the mode of the image it serves
Reply(upload_status, result_url, download_status, mode) ==
    [upload_status |-> upload_status, result_url |-> result_url,
     download_status |-> download_status, mode |-> mode]

\* raise Exception(...): detail holds the values the message is built from
BriaRaise(error, http, detail) ==
    [ret |-> "raise", error |-> error, http |-> http, image |-> NoImage,
     detail |-> detail]
\* return result_image: the image decoded from the download
BriaImage(input_image, reply) ==
    [ret |-> "image", error |-> "", http |-> 2, detail |-> <<>>,
     image |-> [mode |-> reply.mode, size |-> input_image.size,
                ops |-> Append(input_image.ops, Op("bria", <<>>))]]

\* process_with_bria without the test of BRIA_API_TOKEN
process_with_bria_unchecked(input_image, token, reply) ==
    IF reply.upload_status = 0 THEN BriaRaise("requests", 1, <<>>)
    ELSE IF reply.upload_status # 200
    THEN BriaRaise("upload_status", 1, <<reply.upload_status, "response.text">>)
    ELSE IF ~reply.result_url THEN BriaRaise("result_url", 1, <<>>)
    ELSE IF reply.download_status # 200
    THEN BriaRaise("download_status", 2, <<reply.download_status>>)
    ELSE IF reply.mode = "none" THEN BriaRaise("UnidentifiedImageError", 2, <<>>)
    ELSE BriaImage(input_image, reply)

\* process_with_bria without the test of the upload's status code
process_with_bria_any_status(input_image, token, reply) ==
    IF token = "" THEN BriaRaise("BRIA_API_TOKEN", 0, <<>>)
    ELSE IF reply.upload_status = 0 THEN BriaRaise("requests", 1, <<>>)
    ELSE IF ~reply.result_url THEN BriaRaise("result_url", 1, <<>>)
    ELSE IF reply.download_status # 200
    THEN BriaRaise("download_status", 2, <<reply.download_status>>)
    ELSE IF reply.mode = "none" THEN BriaRaise("UnidentifiedImageError", 2, <<>>)
    ELSE BriaImage(input_image, reply)

\* process_with_bria(input_image): http is the number of HTTP calls made; an
\* upload_status of 0 stands for requests.post raising (no answer, timeout)
process_with_bria(input_image, token, reply) ==
    IF token = "" THEN BriaRaise("BRIA_API_TOKEN", 0, <<>>)
    ELSE IF reply.upload_status = 0 THEN BriaRaise("requests", 1, <<>>)
    ELSE IF reply.upload_status # 200
    THEN BriaRaise("upload_status", 1, <<reply.upload_status, "response.text">>)
    ELSE IF ~reply.result_url THEN BriaRaise("result_url", 1, <<>>)
    ELSE IF reply.download_status # 200
    THEN BriaRaise("download_status", 2, <<reply.download_status>>)
    ELSE IF reply.mode = "none" THEN BriaRaise("UnidentifiedImageError", 2, <<>>)
    ELSE BriaImage(input_image, reply)

\* --------------------------------------------------------- crop_below_mouth

\* crop_below_mouth(image): None when no face is found, or a new RGB image of
\* the original size holding the part below the mouth
crop_below_mouth(image, face) ==
    IF face
    THEN [ret |-> "image",
          image |-> [mode |-> "RGB", size |-> image.size,
                     ops |-> Append(image.ops, Op("below_mouth", <<>>))]]
    ELSE [ret |-> "none", image |-> NoImage]

\* -------------------------------------------------------------------- state

VARIABLES
    config,    \* BRIA_API_TOKEN, IMAGEMAGICK_AVAILABLE, GRAPHICSMAGICK_AVAILABLE
    pc,        \* where the request in progress stands
    request,   \* the request in progress
    locals,    \* the handler's local variables
    images,    \* the image handles the request opened, with their close() count
    disk,      \* the request's temporary files that exist
    effects,   \* backend calls, HTTP calls, subprocesses and file writes so far
    response,  \* the answer (status 0: none yet)
    pil,       \* a call of the transform engine on its own
    bria,      \* a call of process_with_bria on its own
    pool,      \* thread_pool and the threads of concurrent requests
    tmp        \* the temporary files of concurrent /resize requests

vars == <<config, pc, request, locals, images, disk, effects, response, pil, bria, pool, tmp>>

\* ----------------------------------------------------------------- requests

Endpoints == {"/remove-background", "/resize", "/crop-below-mouth", "/process-image"}

\* A query parameter the request does not give
Absent == <<"absent">>

\* str(n) of a non-negative int
RECURSIVE str_of(_)
str_of(n) == IF n < 10 THEN <<Digits[n + 1]>>
             ELSE Append(str_of(n \div 10), Digits[(n % 10) + 1])

RawInts == {Absent, <<"a", "b", "c">>, <<"-", "1">>} \cup {str_of(n) : n \in 1..MaxDim}
GoodInts == {str_of(n) : n \in 1..MaxDim}

GoodNames == {<<"a", ".", "p", "n", "g">>, <<"a", ".", "J", "P", "G">>}
BadNames == {<<>>, <<"a">>, <<"a", ".", "g", "i", "f">>,
             <<"a", ".", "p", "n", "g", ".", "g", "i", "f">>}

Corrupt == [ok |-> FALSE, mode |-> "none", size |-> <<0, 0>>]
Uploads ==
    {Corrupt} \cup {[ok |-> TRUE, mode |-> m, size |-> <<w, h>>] :
                        m \in {"RGB", "RGBA"}, w \in 1..MaxDim, h \in 1..MaxDim}

ModeParams ==
    {<<"fit", k, "center">> : k \in {"true", "false"}}
    \cup {<<"stretch", "true", "center">>, <<"crop", "true", "center">>}
    \cup {<<"fill", "true", c>> : c \in {"center", "bottom", "top-left"}}

Tools == {"auto", "imagemagick", "graphicsmagick", "PIL", "gimp"}
Flags == {"true", "false"}

DefaultRequest(endpoint) ==
    [endpoint |-> endpoint, method |-> "POST", remote_ok |-> TRUE,
     has_file |-> TRUE, filename |-> <<"a", ".", "p", "n", "g">>,
     upload |-> [ok |-> TRUE, mode |-> "RGB", size |-> <<1, 1>>],
     width |-> Absent, height |-> Absent,
     mode |-> DEFAULT_RESIZE_PARAMS.RESIZE_MODE,
     keep_ratio |-> DEFAULT_RESIZE_PARAMS.KEEP_RATIO,
     crop |-> DEFAULT_RESIZE_PARAMS.CROP_POSITION,
     tool |-> "auto", remove_bg |-> "false", crop_mouth |-> "false",
     resize |-> "false"]

\* Pre-flight requests and requests from any address, with or without a file
GateRequests ==
    {[DefaultRequest(e) EXCEPT !.method = m, !.remote_ok = a, !.has_file = f] :
        e \in Endpoints, m \in {"POST", "OPTIONS"}, a \in BOOLEAN, f \in BOOLEAN}

\* Requests with every kind of file name and of width and height
InputRequests ==
    {[DefaultRequest(e) EXCEPT !.filename = n] : e \in Endpoints, n \in BadNames}
    \cup {[DefaultRequest(e) EXCEPT !.width = w, !.height = h, !.resize = r,
                                    !.filename = n] :
            e \in {"/resize", "/process-image"}, w \in RawInts, h \in RawInts,
            r \in Flags, n \in {<<"a", ".", "p", "n", "g">>, <<"a", ".", "g", "i", "f">>}}

\* Requests that pass validation, with every upload
UploadRequests ==
    {[DefaultRequest(e) EXCEPT !.filename = n, !.upload = u] :
        e \in {"/remove-background", "/crop-below-mouth"},
        n \in GoodNames, u \in Uploads}

ResizeRequests ==
    {[DefaultRequest("/resize") EXCEPT
        !.filename = n, !.upload = u, !.width = w, !.height = h,
        !.mode = p[1], !.keep_ratio = p[2], !.crop = p[3], !.tool = t] :
        n \in GoodNames, u \in Uploads, w \in GoodInts, h \in GoodInts,
        p \in ModeParams, t \in Tools}

ProcessRequests ==
    {[DefaultRequest("/process-image") EXCEPT
        !.filename = n, !.upload = u, !.remove_bg = b, !.crop_mouth = c] :
        n \in GoodNames, u \in Uploads, b \in Flags, c \in Flags}
    \cup {[DefaultRequest("/process-image") EXCEPT
        !.filename = n, !.upload = u, !.remove_bg = b, !.crop_mouth = c,
        !.resize = "true", !.width = w, !.height = h,
        !.mode = p[1], !.keep_ratio = p[2], !.crop = p[3]] :
        n \in GoodNames, u \in Uploads, b \in Flags, c \in Flags,
        w \in GoodInts, h \in GoodInts, p \in ModeParams}

Requests ==
    GateRequests \cup InputRequests \cup UploadRequests \cup ResizeRequests
    \cup ProcessRequests

\* What the remote API may answer
Replies ==
    {Reply(0, FALSE, 0, "none"), Reply(500, FALSE, 0, "none"),
     Reply(200, FALSE, 0, "none"), Reply(200, TRUE, 404, "none"),
     Reply(200, TRUE, 200, "none"),
     Reply(200, TRUE, 200, "RGBA"), Reply(200, TRUE, 200, "RGB")}

\* ------------------------------------------------------------------ helpers

NoLocals ==
    [width |-> 0, height |-> 0, resize_tool |-> "", input_image |-> 0,
     output_image |-> 0, current_image |-> 0, paths |-> FALSE,
     output_format |-> ""]
\* An image variable holds 0 (not bound), -1 (None) or the index of a handle
None == -1

NoEffects == [calls |-> <<>>, http |-> 0, subprocess |-> 0, writes |-> 0]
Call(fn, via) == [fn |-> fn, via |-> via]

Resp(status, body, error, image, format) ==
    [status |-> status, body |-> body, error |-> error, image |-> image,
     format |-> format, escaped |-> FALSE]
NoResponse == Resp(0, "", "", NoImage, "")
\* jsonify({'error': ...}), status
ErrorResp(status, error) == Resp(status, "json", error, NoImage, "")
\* send_file(img_io, mimetype=...)
ImageResp(image, format) == Resp(200, "image", "", image, format)
\* An exception that leaves the handler: Flask answers 500
EscapedResp(error) == [ErrorResp(500, error) EXCEPT !.body = "html", !.escaped = TRUE]

NoResult == [ret |-> "", error |-> "", image |-> NoImage, created |-> <<>>,
             scaled |-> <<0, 0>>, box |-> <<0, 0, 0, 0>>]
NoPil == [done |-> FALSE, image |-> NoImage, width |-> 0, height |-> 0,
          params |-> DEFAULT_RESIZE_PARAMS, result |-> NoResult,
          imagemagick |-> <<>>, graphicsmagick |-> <<>>]

NoBria == [done |-> FALSE, token |-> "", reply |-> Reply(0, FALSE, 0, "none"),
           image |-> NoImage, result |-> BriaRaise("", 0, <<>>)]
\* No request yet, an empty work queue, no worker busy
NoPool == [handlers |-> <<>>, futures |-> <<>>, work_queue |-> <<>>, workers |-> {}]
\* No request yet, no uuid drawn, no file in uploads/ or results/, and no
\* request has touched a file of another one
NoTmp == [handlers |-> <<>>, uuids |-> {}, files |-> {}, foreign |-> FALSE]

\* New handles for the images a call created
Opened(created) == [i \in 1..Len(created) |-> [im |-> created[i], closes |-> 0]]
\* image.close() on the variable's handle
Closed(imgs, var) == IF var >= 1 THEN [imgs EXCEPT ![var].closes = @ + 1] ELSE imgs

\* resize_params of a request: every value of request.args is a str
resize_params_of(req) ==
    [DEFAULT_RESIZE_PARAMS EXCEPT !.RESIZE_MODE = req.mode,
                                  !.KEEP_RATIO = req.keep_ratio,
                                  !.CROP_POSITION = req.crop]

\* int(request.args.get(name, 0))
int_arg(raw) == IF raw = Absent THEN [ok |-> TRUE, value |-> 0] ELSE int_of(raw)

\* The 400 of the checks of the uploaded file ("" when it passes)
file_error(req) ==
    IF ~req.has_file THEN "no_image"
    ELSE IF req.filename = <<>> THEN "empty_filename"
    ELSE IF ~allowed_file(req.filename) THEN "extension"
    ELSE ""

\* The 400 of width and height ("" when they pass)
dimension_error(req) ==
    LET w == int_arg(req.width)
        h == int_arg(req.height)
    IN  IF ~w.ok \/ ~h.ok THEN "not_numeric"
        ELSE IF w.value <= 0 \/ h.value <= 0 THEN "not_positive"
        ELSE ""

Init ==
    /\ config \in [token : {"", "tok"}, imagemagick : BOOLEAN, graphicsmagick : BOOLEAN]
    /\ pc = "idle"
    /\ request = DefaultRequest("/resize")
    /\ locals = NoLocals
    /\ images = <<>>
    /\ disk = {}
    /\ effects = NoEffects
    /\ response = NoResponse
    /\ pil = NoPil
    /\ bria = NoBria
    /\ pool = NoPool
    /\ tmp = NoTmp

\* A request arrives
receive ==
    /\ pc = "idle"
    /\ request' \in Requests
    /\ pc' = "before_request"
    /\ UNCHANGED <<config, locals, images, disk, effects, response, pil, bria, pool, tmp>>

\* restrict_access_by_ip without the exemption of OPTIONS
restrict_access_by_ip_every_method ==
    /\ pc = "before_request"
    /\ IF ~request.remote_ok
       THEN pc' = "done" /\ response' = ErrorResp(403, "unauthorized")
       ELSE pc' = "handler" /\ UNCHANGED response
    /\ UNCHANGED <<config, request, locals, images, disk, effects, pil, bria, pool, tmp>>

\* @app.before_request
restrict_access_by_ip ==
    /\ pc = "before_request"
    /\ IF request.method # "OPTIONS" /\ ~request.remote_ok
       THEN pc' = "done" /\ response' = ErrorResp(403, "unauthorized")
       ELSE pc' = "handler" /\ UNCHANGED response
    /\ UNCHANGED <<config, request, locals, images, disk, effects, pil, bria, pool, tmp>>

\* The response is sent; the service waits for the next request
next_request ==
    /\ pc = "done"
    /\ pc' = "idle"
    /\ request' = DefaultRequest("/resize")
    /\ locals' = NoLocals
    /\ images' = <<>>
    /\ disk' = {}
    /\ effects' = NoEffects
    /\ response' = NoResponse
    /\ UNCHANGED <<config, pil, bria, pool, tmp>>

\* ------------------------------------------------------ /remove-background

\* remove_background_api, to the try block
remove_background_api_validate ==
    /\ pc = "handler" /\ request.endpoint = "/remove-background"
    /\ IF request.method = "OPTIONS"
       THEN pc' = "done" /\ response' = Resp(200, "empty", "", NoImage, "")
       ELSE IF file_error(request) # ""
       THEN pc' = "done" /\ response' = ErrorResp(400, file_error(request))
       ELSE pc' = "rb_open" /\ UNCHANGED response
    /\ UNCHANGED <<config, request, locals, images, disk, effects, pil, bria, pool, tmp>>

\* file.read() and Image.open
remove_background_api_open ==
    /\ pc = "rb_open"
    /\ IF request.upload.ok
       THEN /\ images' = Opened(<<image_open(request.upload.mode, request.upload.size)>>)
            /\ locals' = [locals EXCEPT !.input_image = 1]
            /\ pc' = "rb_bria"
            /\ UNCHANGED response
       ELSE /\ response' = ErrorResp(500, "decode")
            /\ pc' = "rb_finally"
            /\ UNCHANGED <<images, locals>>
    /\ UNCHANGED <<config, request, disk, effects, pil, bria, pool, tmp>>

\* thread_pool.submit(process_with_bria, ...) and future.result()
remove_background_api_bria ==
    /\ pc = "rb_bria"
    /\ \E reply \in Replies :
        LET r == process_with_bria(images[locals.input_image].im, config.token, reply)
        IN  /\ effects' = [effects EXCEPT
                    !.calls = Append(@, Call("process_with_bria", "pool")),
                    !.http = @ + r.http]
            /\ IF r.ret = "image"
               THEN /\ images' = images \o Opened(<<r.image>>)
                    /\ locals' = [locals EXCEPT !.output_image = Len(images) + 1]
                    /\ pc' = "rb_encode"
                    /\ UNCHANGED response
               ELSE /\ response' = ErrorResp(500, r.error)
                    /\ pc' = "rb_finally"
                    /\ UNCHANGED <<images, locals>>
    /\ UNCHANGED <<config, request, disk, pil, bria, pool, tmp>>

\* Conversion to RGBA, PNG encoding, send_file
remove_background_api_encode ==
    /\ pc = "rb_encode"
    /\ LET out == images[locals.output_image].im
           converted == image_convert(out, "RGBA")
       IN  IF out.mode # "RGBA"
           THEN /\ images' = images \o Opened(<<converted>>)
                /\ locals' = [locals EXCEPT !.output_image = Len(images) + 1]
                /\ response' = ImageResp(converted, "PNG")
           ELSE /\ response' = ImageResp(out, "PNG")
                /\ UNCHANGED <<images, locals>>
    /\ pc' = "rb_finally"
    /\ UNCHANGED <<config, request, disk, effects, pil, bria, pool, tmp>>

\* The finally block
remove_background_api_finally ==
    /\ pc = "rb_finally"
    /\ images' = Closed(Closed(images, locals.input_image), locals.output_image)
    /\ pc' = "done"
    /\ UNCHANGED <<config, request, locals, disk, effects, response, pil, bria, pool, tmp>>

\* ------------------------------------------------------------------ /resize

\* resize_image_api, to the try block
resize_image_api_validate ==
    /\ pc = "handler" /\ request.endpoint = "/resize"
    /\ IF request.method = "OPTIONS"
       THEN pc' = "done" /\ response' = Resp(200, "empty", "", NoImage, "")
                         /\ UNCHANGED locals
       ELSE IF dimension_error(request) # ""
       THEN pc' = "done" /\ response' = ErrorResp(400, dimension_error(request))
                         /\ UNCHANGED locals
       ELSE IF file_error(request) # ""
       THEN pc' = "done" /\ response' = ErrorResp(400, file_error(request))
                         /\ UNCHANGED locals
       ELSE /\ pc' = "rs_save"
            /\ locals' = [locals EXCEPT !.width = int_arg(request.width).value,
                                        !.height = int_arg(request.height).value,
                                        !.resize_tool = lower_word(request.tool)]
            /\ UNCHANGED response
    /\ UNCHANGED <<config, request, images, disk, effects, pil, bria, pool, tmp>>

\* The temporary paths, the output format, the upload written to input_path
resize_image_api_save ==
    /\ pc = "rs_save"
    /\ locals' = [locals EXCEPT
            !.paths = TRUE,
            !.output_format = IF endswith_png(request.filename) THEN "PNG" ELSE "JPEG"]
    /\ disk' = disk \cup {"input"}
    /\ effects' = [effects EXCEPT !.writes = @ + 1]
    /\ pc' = "rs_resize"
    /\ UNCHANGED <<config, request, images, response, pil, bria, pool, tmp>>

\* The tool the request is served by: 'auto' takes the first available
selected_tool(resize_tool, cfg) ==
    IF resize_tool = "auto"
    THEN IF cfg.imagemagick THEN "imagemagick"
         ELSE IF cfg.graphicsmagick THEN "graphicsmagick"
         ELSE "pil"
    ELSE resize_tool

\* The branch taken when the availability of the tools is not consulted
backend_of_unchecked(resize_tool, cfg) ==
    IF resize_tool = "imagemagick" THEN "imagemagick"
    ELSE IF resize_tool = "graphicsmagick" THEN "graphicsmagick"
    ELSE "pil"

\* The branch of the if that runs: "imagemagick", "graphicsmagick" or "pil"
backend_of(resize_tool, cfg) ==
    IF resize_tool = "imagemagick" /\ cfg.imagemagick THEN "imagemagick"
    ELSE IF resize_tool = "graphicsmagick" /\ cfg.graphicsmagick THEN "graphicsmagick"
    ELSE "pil"

\* output_image.save(output_path): PIL takes the format from the extension and
\* cannot write an RGBA image as JPEG
save_raises(image, format) == format = "JPEG" /\ image.mode = "RGBA"

\* Tool selection and the resize by the selected tool
resize_image_api_resize ==
    /\ pc = "rs_resize"
    /\ LET tool == selected_tool(locals.resize_tool, config)
           backend == backend_of(tool, config)
           params == resize_params_of(request)
           png == locals.output_format = "PNG"
           cmd == IF backend = "imagemagick"
                  THEN resize_with_imagemagick(locals.width, locals.height, params)
                  ELSE resize_with_graphicsmagick(locals.width, locals.height, params)
           upload == image_open(request.upload.mode, request.upload.size)
           r == resize_with_pil(upload, locals.width, locals.height, params)
       IN  IF backend # "pil"
           THEN \E exit_ok \in BOOLEAN :
                /\ effects' = [effects EXCEPT
                        !.calls = Append(@, Call("resize_with_" \o backend, "inline")),
                        !.subprocess = @ + 1]
                /\ IF exit_ok /\ request.upload.ok
                   THEN /\ disk' = disk \cup {"output"}
                        /\ images' = Opened(<<magick_output(upload, cmd, png)>>)
                        /\ locals' = [locals EXCEPT !.resize_tool = tool,
                                                    !.output_image = 1]
                        /\ pc' = "rs_encode"
                        /\ UNCHANGED response
                   ELSE /\ response' = ErrorResp(500, "subprocess")
                        /\ locals' = [locals EXCEPT !.resize_tool = tool]
                        /\ pc' = "rs_finally"
                        /\ UNCHANGED <<disk, images>>
           ELSE IF ~request.upload.ok
           THEN /\ response' = ErrorResp(500, "decode")
                /\ locals' = [locals EXCEPT !.resize_tool = tool]
                /\ pc' = "rs_finally"
                /\ UNCHANGED <<disk, images, effects>>
           ELSE /\ effects' = [effects EXCEPT
                        !.calls = Append(@, Call("resize_with_pil", "inline")),
                        !.writes = IF r.ret = "image" /\ ~save_raises(r.image, locals.output_format)
                                   THEN @ + 1 ELSE @]
                /\ images' = Opened(<<upload>> \o r.created)
                /\ locals' = [locals EXCEPT
                        !.resize_tool = tool,
                        !.input_image = 1,
                        !.output_image = CASE r.ret = "image" -> 1 + Len(r.created)
                                           [] r.ret = "none" -> None
                                           [] OTHER -> 0]
                /\ IF r.ret = "raise"
                   THEN response' = ErrorResp(500, r.error) /\ pc' = "rs_finally"
                                                            /\ UNCHANGED disk
                   ELSE IF r.ret = "none"
                   THEN response' = ErrorResp(500, "AttributeError")
                        /\ pc' = "rs_finally" /\ UNCHANGED disk
                   ELSE IF save_raises(r.image, locals.output_format)
                   THEN response' = ErrorResp(500, "OSError")
                        /\ pc' = "rs_finally" /\ UNCHANGED disk
                   ELSE disk' = disk \cup {"output"} /\ pc' = "rs_encode"
                                                     /\ UNCHANGED response
    /\ UNCHANGED <<config, request, pil, bria, pool, tmp>>

\* The mode adjusted to the format, the encoding, send_file
resize_image_api_encode ==
    /\ pc = "rs_encode"
    /\ LET out == images[locals.output_image].im
           converted == image_convert(out, "RGB")
       IN  IF out.mode = "RGBA" /\ locals.output_format = "JPEG"
           THEN /\ images' = images \o Opened(<<converted>>)
                /\ locals' = [locals EXCEPT !.output_image = Len(images) + 1]
                /\ response' = ImageResp(converted, locals.output_format)
           ELSE /\ response' = ImageResp(out, locals.output_format)
                /\ UNCHANGED <<images, locals>>
    /\ pc' = "rs_finally"
    /\ UNCHANGED <<config, request, disk, effects, pil, bria, pool, tmp>>

\* The finally block: close() on None raises AttributeError, which leaves the
\* handler before the temporary files are removed
resize_image_api_finally ==
    /\ pc = "rs_finally"
    /\ IF locals.output_image = None
       THEN /\ images' = Closed(images, locals.input_image)
            /\ response' = EscapedResp("AttributeError")
            /\ UNCHANGED disk
       ELSE /\ images' = Closed(Closed(images, locals.input_image), locals.output_image)
            /\ disk' = IF locals.paths THEN {} ELSE disk
            /\ UNCHANGED response
    /\ pc' = "done"
    /\ UNCHANGED <<config, request, locals, effects, pil, bria, pool, tmp>>

\* -------------------------------------------------------- /crop-below-mouth

\* crop_below_mouth_api, to the try block
crop_below_mouth_api_validate ==
    /\ pc = "handler" /\ request.endpoint = "/crop-below-mouth"
    /\ IF request.method = "OPTIONS"
       THEN pc' = "done" /\ response' = Resp(200, "empty", "", NoImage, "")
       ELSE IF file_error(request) # ""
       THEN pc' = "done" /\ response' = ErrorResp(400, file_error(request))
       ELSE pc' = "cm_open" /\ UNCHANGED response
    /\ UNCHANGED <<config, request, locals, images, disk, effects, pil, bria, pool, tmp>>

\* file.read() and Image.open
crop_below_mouth_api_open ==
    /\ pc = "cm_open"
    /\ IF request.upload.ok
       THEN /\ images' = Opened(<<image_open(request.upload.mode, request.upload.size)>>)
            /\ locals' = [locals EXCEPT !.input_image = 1]
            /\ pc' = "cm_crop"
            /\ UNCHANGED response
       ELSE /\ response' = ErrorResp(500, "decode")
            /\ pc' = "cm_finally"
            /\ UNCHANGED <<images, locals>>
    /\ UNCHANGED <<config, request, disk, effects, pil, bria, pool, tmp>>

\* thread_pool.submit(crop_below_mouth, input_image) and future.result()
crop_below_mouth_api_crop ==
    /\ pc = "cm_crop"
    /\ \E face \in BOOLEAN :
        LET r == crop_below_mouth(images[locals.input_image].im, face)
        IN  IF r.ret = "image"
            THEN /\ images' = images \o Opened(<<r.image>>)
                 /\ locals' = [locals EXCEPT !.output_image = Len(images) + 1]
                 /\ pc' = "cm_encode"
                 /\ UNCHANGED response
            ELSE /\ locals' = [locals EXCEPT !.output_image = None]
                 /\ response' = ErrorResp(400, "no_face")
                 /\ pc' = "cm_finally"
                 /\ UNCHANGED images
    /\ effects' = [effects EXCEPT !.calls = Append(@, Call("crop_below_mouth", "pool"))]
    /\ UNCHANGED <<config, request, disk, pil, bria, pool, tmp>>

\* The output format, the mode adjusted to it, the encoding, send_file
crop_below_mouth_api_encode ==
    /\ pc = "cm_encode"
    /\ LET out == images[locals.output_image].im
           format == IF endswith_png(request.filename) THEN "PNG" ELSE "JPEG"
           converted == image_convert(out, "RGB")
       IN  /\ IF out.mode = "RGBA" /\ format = "JPEG"
              THEN /\ images' = images \o Opened(<<converted>>)
                   /\ locals' = [locals EXCEPT !.output_image = Len(images) + 1,
                                               !.output_format = format]
                   /\ response' = ImageResp(converted, format)
              ELSE /\ response' = ImageResp(out, format)
                   /\ locals' = [locals EXCEPT !.output_format = format]
                   /\ UNCHANGED images
    /\ pc' = "cm_finally"
    /\ UNCHANGED <<config, request, disk, effects, pil, bria, pool, tmp>>

\* The finally block
crop_below_mouth_api_finally ==
    /\ pc = "cm_finally"
    /\ images' = Closed(Closed(images, locals.input_image), locals.output_image)
    /\ pc' = "done"
    /\ UNCHANGED <<config, request, locals, disk, effects, response, pil, bria, pool, tmp>>

\* ----------------------------------------------------------- /process-image

\* process_image_api, to the try block: width and height are read only when
\* resize is asked for
process_image_api_validate ==
    /\ pc = "handler" /\ request.endpoint = "/process-image"
    /\ IF request.method = "OPTIONS"
       THEN pc' = "done" /\ response' = Resp(200, "empty", "", NoImage, "")
                         /\ UNCHANGED locals
       ELSE IF truthy(request.resize) /\ dimension_error(request) # ""
       THEN pc' = "done" /\ response' = ErrorResp(400, dimension_error(request))
                         /\ UNCHANGED locals
       ELSE IF file_error(request) # ""
       THEN pc' = "done" /\ response' = ErrorResp(400, file_error(request))
                         /\ UNCHANGED locals
       ELSE /\ pc' = "pi_open"
            /\ locals' = IF truthy(request.resize)
                         THEN [locals EXCEPT !.width = int_arg(request.width).value,
                                             !.height = int_arg(request.height).value]
                         ELSE locals
            /\ UNCHANGED response
    /\ UNCHANGED <<config, request, images, disk, effects, pil, bria, pool, tmp>>

\* file.read() and Image.open
process_image_api_open ==
    /\ pc = "pi_open"
    /\ IF request.upload.ok
       THEN /\ images' = Opened(<<image_open(request.upload.mode, request.upload.size)>>)
            /\ locals' = [locals EXCEPT !.current_image = 1]
            /\ pc' = "pi_remove_bg"
            /\ UNCHANGED response
       ELSE /\ response' = ErrorResp(500, "decode")
            /\ pc' = "pi_finally"
            /\ UNCHANGED <<images, locals>>
    /\ UNCHANGED <<config, request, disk, effects, pil, bria, pool, tmp>>

\* if remove_bg: thread_pool.submit(process_with_bria, ...), future.result()
process_image_api_remove_bg ==
    /\ pc = "pi_remove_bg"
    /\ IF truthy(request.remove_bg)
       THEN \E reply \in Replies :
            LET r == process_with_bria(images[locals.current_image].im,
                                       config.token, reply)
            IN  /\ effects' = [effects EXCEPT
                        !.calls = Append(@, Call("process_with_bria", "pool")),
                        !.http = @ + r.http]
                /\ IF r.ret = "image"
                   THEN /\ images' = images \o Opened(<<r.image>>)
                        /\ locals' = [locals EXCEPT !.current_image = Len(images) + 1]
                        /\ pc' = "pi_crop_mouth"
                        /\ UNCHANGED response
                   ELSE /\ response' = ErrorResp(500, r.error)
                        /\ pc' = "pi_finally"
                        /\ UNCHANGED <<images, locals>>
       ELSE pc' = "pi_crop_mouth" /\ UNCHANGED <<effects, images, locals, response>>
    /\ UNCHANGED <<config, request, disk, pil, bria, pool, tmp>>

\* process_image_api_crop_mouth without the test of crop_mouth
process_image_api_crop_mouth_always ==
    /\ pc = "pi_crop_mouth"
    /\ \E face \in BOOLEAN :
        LET r == crop_below_mouth(images[locals.current_image].im, face)
        IN  /\ effects' = [effects EXCEPT
                    !.calls = Append(@, Call("crop_below_mouth", "inline"))]
            /\ IF r.ret = "image"
               THEN /\ images' = images \o Opened(<<r.image>>)
                    /\ locals' = [locals EXCEPT !.current_image = Len(images) + 1]
               ELSE UNCHANGED <<images, locals>>
    /\ pc' = "pi_resize"
    /\ UNCHANGED <<config, request, disk, response, pil, bria, pool, tmp>>

\* if crop_mouth: crop_below_mouth(current_image), kept when it is not None
process_image_api_crop_mouth ==
    /\ pc = "pi_crop_mouth"
    /\ IF truthy(request.crop_mouth)
       THEN \E face \in BOOLEAN :
            LET r == crop_below_mouth(images[locals.current_image].im, face)
            IN  /\ effects' = [effects EXCEPT
                        !.calls = Append(@, Call("crop_below_mouth", "inline"))]
                /\ IF r.ret = "image"
                   THEN /\ images' = images \o Opened(<<r.image>>)
                        /\ locals' = [locals EXCEPT !.current_image = Len(images) + 1]
                   ELSE UNCHANGED <<images, locals>>
       ELSE UNCHANGED <<effects, images, locals>>
    /\ pc' = "pi_resize"
    /\ UNCHANGED <<config, request, disk, response, pil, bria, pool, tmp>>

\* if resize and width > 0 and height > 0: resize_with_pil(current_image, ...)
process_image_api_resize ==
    /\ pc = "pi_resize"
    /\ IF truthy(request.resize) /\ locals.width > 0 /\ locals.height > 0
       THEN LET r == resize_with_pil(images[locals.current_image].im, locals.width,
                                     locals.height, resize_params_of(request))
            IN  /\ effects' = [effects EXCEPT
                        !.calls = Append(@, Call("resize_with_pil", "inline"))]
                /\ images' = images \o Opened(r.created)
                /\ CASE r.ret = "image" ->
                        /\ locals' = [locals EXCEPT
                                !.current_image = Len(images) + Len(r.created)]
                        /\ pc' = "pi_encode"
                        /\ UNCHANGED response
                     [] r.ret = "none" ->
                        /\ locals' = [locals EXCEPT !.current_image = None]
                        /\ pc' = "pi_encode"
                        /\ UNCHANGED response
                     [] OTHER ->
                        /\ response' = ErrorResp(500, r.error)
                        /\ pc' = "pi_finally"
                        /\ UNCHANGED locals
       ELSE pc' = "pi_encode" /\ UNCHANGED <<effects, images, locals, response>>
    /\ UNCHANGED <<config, request, disk, pil, bria, pool, tmp>>

\* The output format, the mode adjusted to it, the encoding, send_file;
\* current_image.mode raises AttributeError when current_image is None
process_image_api_encode ==
    /\ pc = "pi_encode"
    /\ IF locals.current_image = None
       THEN response' = ErrorResp(500, "AttributeError") /\ UNCHANGED <<images, locals>>
       ELSE LET out == images[locals.current_image].im
                format == IF endswith_png(request.filename)
                             \/ (truthy(request.remove_bg) /\ out.mode = "RGBA")
                          THEN "PNG" ELSE "JPEG"
                converted == image_convert(out, "RGB")
            IN  IF out.mode = "RGBA" /\ format = "JPEG"
                THEN /\ images' = images \o Opened(<<converted>>)
                     /\ locals' = [locals EXCEPT !.current_image = Len(images) + 1,
                                                 !.output_format = format]
                     /\ response' = ImageResp(converted, format)
                ELSE /\ response' = ImageResp(out, format)
                     /\ locals' = [locals EXCEPT !.output_format = format]
                     /\ UNCHANGED images
    /\ pc' = "pi_finally"
    /\ UNCHANGED <<config, request, disk, effects, pil, bria, pool, tmp>>

\* The finally block: current_image.close() raises AttributeError on None
process_image_api_finally ==
    /\ pc = "pi_finally"
    /\ IF locals.current_image = None
       THEN response' = EscapedResp("AttributeError") /\ UNCHANGED images
       ELSE images' = Closed(images, locals.current_image) /\ UNCHANGED response
    /\ pc' = "done"
    /\ UNCHANGED <<config, request, locals, disk, effects, pil, bria, pool, tmp>>

\* ------------------------------------------------------------ specification

Next ==
    \/ receive
    \/ restrict_access_by_ip
    \/ next_request
    \/ remove_background_api_validate
    \/ remove_background_api_open
    \/ remove_background_api_bria
    \/ remove_background_api_encode
    \/ remove_background_api_finally
    \/ resize_image_api_validate
    \/ resize_image_api_save
    \/ resize_image_api_resize
    \/ resize_image_api_encode
    \/ resize_image_api_finally
    \/ crop_below_mouth_api_validate
    \/ crop_below_mouth_api_open
    \/ crop_below_mouth_api_crop
    \/ crop_below_mouth_api_encode
    \/ crop_below_mouth_api_finally
    \/ process_image_api_validate
    \/ process_image_api_open
    \/ process_image_api_remove_bg
    \/ process_image_api_crop_mouth
    \/ process_image_api_resize
    \/ process_image_api_encode
    \/ process_image_api_finally

Spec == Init /\ [][Next]_vars

\* ------------------------------------------------- the transform on its own

Sizes == {<<w, h>> : w \in 1..MaxDim, h \in 1..MaxDim}
CropPositions ==
    {"center", "top", "bottom", "left", "right", "top-left", "top-right",
     "bottom-left", "bottom-right", "TOP"}

\* resize_params as the handlers build them (BG_COLOR a str) and as a caller
\* of resize_with_pil may (BG_COLOR a tuple)
TransformParams ==
    {[DEFAULT_RESIZE_PARAMS EXCEPT !.KEEP_RATIO = k, !.BG_COLOR = c, !.BG_ALPHA = a] :
        k \in {"true", "True", "false"}, c \in {Str("white"), Tuple("white")},
        a \in {<<"2", "5", "5">>, <<"0">>, <<"a">>}}
    \cup {[DEFAULT_RESIZE_PARAMS EXCEPT !.RESIZE_MODE = m] : m \in {"stretch", "crop"}}
    \cup {[DEFAULT_RESIZE_PARAMS EXCEPT !.RESIZE_MODE = m, !.CROP_POSITION = c] :
            m \in {"fill", "FILL"}, c \in CropPositions}

InitTransform ==
    /\ config = [token |-> "", imagemagick |-> TRUE, graphicsmagick |-> TRUE]
    /\ pc = "transform"
    /\ request = DefaultRequest("/resize")
    /\ locals = NoLocals
    /\ images = <<>>
    /\ disk = {}
    /\ effects = NoEffects
    /\ response = NoResponse
    /\ \E m \in {"RGB", "RGBA"}, size \in Sizes \cup RoundingSizes,
          target \in Sizes \cup RoundingTargets, params \in TransformParams :
        pil = [NoPil EXCEPT !.image = image_open(m, size), !.width = target[1],
                            !.height = target[2], !.params = params]
    /\ bria = NoBria
    /\ pool = NoPool
    /\ tmp = NoTmp

\* resize_with_pil and the command of each tool, on the same arguments
transform ==
    /\ pc = "transform" /\ ~pil.done
    /\ pil' = [pil EXCEPT
            !.done = TRUE,
            !.result = resize_with_pil(pil.image, pil.width, pil.height, pil.params),
            !.imagemagick = resize_with_imagemagick(pil.width, pil.height, pil.params),
            !.graphicsmagick = resize_with_graphicsmagick(pil.width, pil.height, pil.params)]
    /\ UNCHANGED <<config, pc, request, locals, images, disk, effects, response,
                   bria, pool, tmp>>

SpecTransform == InitTransform /\ [][transform]_vars

\* ------------------------------------------- process_with_bria on its own

\* What the remote API may answer to the upload and to the download
BriaReplies ==
    Replies \cup {Reply(u, r, d, "RGBA") : u \in {200, 201, 403}, r \in BOOLEAN,
                                          d \in {200, 500}}

InitBria ==
    /\ config = [token |-> "", imagemagick |-> TRUE, graphicsmagick |-> TRUE]
    /\ pc = "bria"
    /\ request = DefaultRequest("/remove-background")
    /\ locals = NoLocals
    /\ images = <<>>
    /\ disk = {}
    /\ effects = NoEffects
    /\ response = NoResponse
    /\ pil = NoPil
    /\ pool = NoPool
    /\ tmp = NoTmp
    /\ \E token \in {"", "tok"}, reply \in BriaReplies, m \in {"RGB", "RGBA"},
          size \in Sizes :
        bria = [NoBria EXCEPT !.token = token, !.reply = reply,
                              !.image = image_open(m, size)]

\* process_with_bria(input_image) with BRIA_API_TOKEN = bria.token
call_process_with_bria ==
    /\ pc = "bria" /\ ~bria.done
    /\ bria' = [bria EXCEPT
            !.done = TRUE,
            !.result = process_with_bria(bria.image, bria.token, bria.reply)]
    /\ UNCHANGED <<config, pc, request, locals, images, disk, effects, response,
                   pil, pool, tmp>>

SpecBria == InitBria /\ [][call_process_with_bria]_vars

\* ------------------------------------------------------- the thread pool

\* ThreadPoolExecutor(max_workers=4)
max_workers == 4
\* The requests in flight at the same time
MaxRequests == 5
\* The functions the handlers submit to thread_pool
TaskFns == {"process_with_bria", "crop_below_mouth"}
WorkItems == [future : 1..MaxRequests, fn : TaskFns]

\* The sequential variables, which the concurrent specifications leave alone
sequential == <<config, pc, request, locals, images, disk, effects, response, pil, bria>>

InitPool ==
    /\ config = [token |-> "tok", imagemagick |-> TRUE, graphicsmagick |-> TRUE]
    /\ pc = "pool"
    /\ request = DefaultRequest("/remove-background")
    /\ locals = NoLocals
    /\ images = <<>>
    /\ disk = {}
    /\ effects = NoEffects
    /\ response = NoResponse
    /\ pil = NoPil
    /\ bria = NoBria
    /\ pool = NoPool
    /\ tmp = NoTmp

\* A request arrives on a thread of its own; its handler reaches the submit
pool_receive ==
    /\ pc = "pool"
    /\ Len(pool.handlers) < MaxRequests
    /\ pool' = [pool EXCEPT !.handlers = Append(@, "submit"),
                            !.futures = Append(@, "none")]
    /\ UNCHANGED <<sequential, tmp>>

\* future = thread_pool.submit(fn, ...): the work item is put on the queue,
\* whatever the workers are doing, and the handler goes on to future.result()
pool_submit(r) ==
    /\ pc = "pool"
    /\ r \in 1..Len(pool.handlers) /\ pool.handlers[r] = "submit"
    /\ \E fn \in TaskFns :
        pool' = [pool EXCEPT
            !.work_queue = Append(@, [future |-> r, fn |-> fn]),
            !.futures = [@ EXCEPT ![r] = "PENDING"],
            !.handlers = [@ EXCEPT ![r] = "result"]]
    /\ UNCHANGED <<sequential, tmp>>

\* worker_run with no limit on the number of workers
worker_run_unbounded ==
    /\ pc = "pool"
    /\ pool.work_queue # <<>>
    /\ LET item == Head(pool.work_queue)
       IN  pool' = [pool EXCEPT
                !.work_queue = Tail(@),
                !.workers = @ \cup {item},
                !.futures = [@ EXCEPT ![item.future] = "RUNNING"]]
    /\ UNCHANGED <<sequential, tmp>>

\* A worker thread, of at most max_workers, takes the oldest work item
worker_run ==
    /\ pc = "pool"
    /\ pool.work_queue # <<>>
    /\ Cardinality(pool.workers) < max_workers
    /\ LET item == Head(pool.work_queue)
       IN  pool' = [pool EXCEPT
                !.work_queue = Tail(@),
                !.workers = @ \cup {item},
                !.futures = [@ EXCEPT ![item.future] = "RUNNING"]]
    /\ UNCHANGED <<sequential, tmp>>

\* The function returns or raises: the future holds the outcome, the worker
\* is free again
worker_return(item) ==
    /\ pc = "pool"
    /\ item \in pool.workers
    /\ pool' = [pool EXCEPT
            !.workers = @ \ {item},
            !.futures = [@ EXCEPT ![item.future] = "FINISHED"]]
    /\ UNCHANGED <<sequential, tmp>>

\* future.result() returns or re-raises; the handler answers
future_result(r) ==
    /\ pc = "pool"
    /\ r \in 1..Len(pool.handlers) /\ pool.handlers[r] = "result"
    /\ pool.futures[r] = "FINISHED"
    /\ pool' = [pool EXCEPT !.handlers = [@ EXCEPT ![r] = "responded"]]
    /\ UNCHANGED <<sequential, tmp>>

NextPool ==
    \/ pool_receive
    \/ \E r \in 1..MaxRequests : pool_submit(r)
    \/ worker_run
    \/ \E item \in WorkItems : worker_return(item)
    \/ \E r \in 1..MaxRequests : future_result(r)

\* Every thread is scheduled again and again, and every call of a worker ends
\* (process_with_bria gives each HTTP call a timeout)
FairPool ==
    /\ WF_vars(worker_run)
    /\ \A r \in 1..MaxRequests : WF_vars(pool_submit(r)) /\ WF_vars(future_result(r))
    /\ \A item \in WorkItems : WF_vars(worker_return(item))

SpecPool == InitPool /\ [][NextPool]_vars /\ FairPool

\* ------------------------------------- the temporary files of /resize

\* The /resize requests in flight at the same time
MaxResize == 2
\* The file names of the uploads: a.png, b/a.png, b_a.png
TmpNames ==
    {<<"a", ".", "p", "n", "g">>, <<"b", "/", "a", ".", "p", "n", "g">>,
     <<"b", "_", "a", ".", "p", "n", "g">>}
\* str(uuid.uuid4()): strings of one length; two calls never return the same
Uuids == {<<"u", Digits[n + 1]>> : n \in 1..(MaxResize + 1)}

\* The characters secure_filename keeps
is_safe(c) == c \in {"a", "b", "d", "e", "g", "i", "n", "p", "r", "s", "u", "z",
                     "_", ".", "-"} \/ is_digit(c)
\* "_".join(s.split())
RECURSIVE join_words(_, _, _)
join_words(s, acc, gap) ==
    IF s = <<>> THEN acc
    ELSE IF Head(s) = " " THEN join_words(Tail(s), acc, acc # <<>>)
    ELSE join_words(Tail(s), IF gap THEN acc \o <<"_", Head(s)>>
                                    ELSE Append(acc, Head(s)), FALSE)
\* s.strip("._")
RECURSIVE strip(_)
strip(s) ==
    IF s = <<>> THEN s
    ELSE IF Head(s) \in {".", "_"} THEN strip(Tail(s))
    ELSE IF s[Len(s)] \in {".", "_"} THEN strip(SubSeq(s, 1, Len(s) - 1))
    ELSE s
\* werkzeug's secure_filename: path separators become spaces, the words are
\* joined by "_", the other characters dropped, dots and underscores stripped
secure_filename(filename) ==
    LET spaced == [i \in 1..Len(filename) |->
                        IF filename[i] = "/" THEN " " ELSE filename[i]]
    IN  strip(SelectSeq(join_words(spaced, <<>>, FALSE), is_safe))

\* input_filename made of the file name only
input_filename_without_id(unique_id, filename) == secure_filename(filename)

\* secure_filename(f"{unique_id}_{file.filename}")
input_filename(unique_id, filename) ==
    secure_filename(unique_id \o <<"_">> \o filename)
\* f"resized_{input_filename}"
output_filename(name) == <<"r", "e", "s", "i", "z", "e", "d", "_">> \o name
\* os.path.join(folder, name)
Path(folder, name) == [folder |-> folder, name |-> name]
NoPath == Path("", <<>>)

\* The request that wrote the file at a path (0 when there is none)
owner_of(path) ==
    IF \E f \in tmp.files : f.path = path
    THEN (CHOOSE f \in tmp.files : f.path = path).owner
    ELSE 0
\* open(path, 'wb') or the tool's output: the file is created or overwritten
written(files, path, r) ==
    {f \in files : f.path # path} \cup {[path |-> path, owner |-> r]}

InitTmp ==
    /\ config = [token |-> "", imagemagick |-> TRUE, graphicsmagick |-> TRUE]
    /\ pc = "tmp"
    /\ request = DefaultRequest("/resize")
    /\ locals = NoLocals
    /\ images = <<>>
    /\ disk = {}
    /\ effects = NoEffects
    /\ response = NoResponse
    /\ pil = NoPil
    /\ bria = NoBria
    /\ pool = NoPool
    /\ tmp = NoTmp

\* A POST /resize that passed validation arrives on a thread of its own
tmp_receive ==
    /\ pc = "tmp"
    /\ Len(tmp.handlers) < MaxResize
    /\ \E name \in TmpNames :
        tmp' = [tmp EXCEPT !.handlers = Append(@,
                    [pc |-> "paths", filename |-> name, unique_id |-> <<>>,
                     input_path |-> NoPath, output_path |-> NoPath])]
    /\ UNCHANGED <<sequential, pool>>

\* unique_id, input_path and output_path
tmp_paths(r) ==
    /\ pc = "tmp"
    /\ r \in 1..Len(tmp.handlers) /\ tmp.handlers[r].pc = "paths"
    /\ \E u \in Uuids \ tmp.uuids :
        LET name == input_filename(u, tmp.handlers[r].filename)
        IN  tmp' = [tmp EXCEPT
                !.uuids = @ \cup {u},
                !.handlers = [@ EXCEPT ![r] =
                    [@ EXCEPT !.pc = "save", !.unique_id = u,
                              !.input_path = Path("uploads", name),
                              !.output_path = Path("results", output_filename(name))]]]
    /\ UNCHANGED <<sequential, pool>>

\* with open(input_path, 'wb') as f: f.write(file_data)
tmp_save(r) ==
    /\ pc = "tmp"
    /\ r \in 1..Len(tmp.handlers) /\ tmp.handlers[r].pc = "save"
    /\ LET path == tmp.handlers[r].input_path
       IN  tmp' = [tmp EXCEPT
                !.foreign = @ \/ owner_of(path) \notin {0, r},
                !.files = written(@, path, r),
                !.handlers = [@ EXCEPT ![r] = [@ EXCEPT !.pc = "resize"]]]
    /\ UNCHANGED <<sequential, pool>>

\* The tool reads input_path and writes output_path (PIL saves output_path),
\* or fails and writes nothing
tmp_resize(r) ==
    /\ pc = "tmp"
    /\ r \in 1..Len(tmp.handlers) /\ tmp.handlers[r].pc = "resize"
    /\ \E ok \in BOOLEAN :
        LET h == tmp.handlers[r]
        IN  tmp' = [tmp EXCEPT
                !.foreign = @ \/ owner_of(h.input_path) # r
                              \/ (ok /\ owner_of(h.output_path) \notin {0, r}),
                !.files = IF ok THEN written(@, h.output_path, r) ELSE @,
                !.handlers = [@ EXCEPT ![r] = [@ EXCEPT !.pc = "finally"]]]
    /\ UNCHANGED <<sequential, pool>>

\* finally: os.remove of input_path and of output_path where they exist
tmp_finally(r) ==
    /\ pc = "tmp"
    /\ r \in 1..Len(tmp.handlers) /\ tmp.handlers[r].pc = "finally"
    /\ LET h == tmp.handlers[r]
       IN  tmp' = [tmp EXCEPT
                !.foreign = @ \/ owner_of(h.input_path) \notin {0, r}
                              \/ owner_of(h.output_path) \notin {0, r},
                !.files = {f \in @ : f.path \notin {h.input_path, h.output_path}},
                !.handlers = [@ EXCEPT ![r] = [@ EXCEPT !.pc = "done"]]]
    /\ UNCHANGED <<sequential, pool>>

NextTmp ==
    \/ tmp_receive
    \/ \E r \in 1..MaxResize : tmp_paths(r)
    \/ \E r \in 1..MaxResize : tmp_save(r)
    \/ \E r \in 1..MaxResize : tmp_resize(r)
    \/ \E r \in 1..MaxResize : tmp_finally(r)

SpecTmp == InitTmp /\ [][NextTmp]_vars

\* -------------------------------------------------------------- properties

Answered == pc = "done"
\* A POST request that reached its handler
Handled == request.method = "POST" /\ request.remote_ok
ResizeAsked ==
    \/ request.endpoint = "/resize"
    \/ request.endpoint = "/process-image" /\ truthy(request.resize)
\* An operation of the image's history resampled, cropped or padded it
resampled(im) ==
    \E i \in 1..Len(im.ops) : im.ops[i].op \in {"resize", "extent", "crop", "paste"}
Transformed == pc = "transform" /\ pil.done
TransformMode == lower_word(pil.params.RESIZE_MODE)
TransformCrop == lower_word(pil.params.CROP_POSITION)
TransformTarget == <<pil.width, pil.height>>

\* C1: a resize with both width and height that is answered 200 returns an
\* image of exactly (width, height), whatever the mode, keep_ratio and tool.
C1_ExactDimensions ==
    (Answered /\ Handled /\ ResizeAsked /\ response.status = 200)
        => response.image.size = <<locals.width, locals.height>>

\* C2: resize_with_pil in mode fit with keep-ratio, bg colour 'white' and
\* alpha '255' returns an image of exactly (target_w, target_h), for every
\* input size and positive target.
C2_FitExact ==
    (Transformed /\ pil.params = DEFAULT_RESIZE_PARAMS)
        => /\ pil.result.ret = "image"
           /\ pil.result.image.size = TransformTarget

\* C3: resize_with_pil in mode fill returns an image of exactly (target_w,
\* target_h), the crop anchored by the position: top keeps the rows from 0,
\* bottom the last target_h rows, left the columns from 0, right the last
\* target_w columns, center the centred region.
C3_FillExactAnchored ==
    (Transformed /\ TransformMode = "fill")
        => /\ pil.result.ret = "image"
           /\ pil.result.image.size = TransformTarget
           /\ pil.image.size # TransformTarget =>
                LET box == pil.result.box
                    new == pil.result.scaled
                IN  /\ TransformCrop = "top" => box[2] = 0
                    /\ TransformCrop = "bottom" => box[4] = new[2]
                    /\ TransformCrop = "left" => box[1] = 0
                    /\ TransformCrop = "right" => box[3] = new[1]
                    /\ TransformCrop = "center" =>
                        /\ box[1] = floordiv2(new[1] - pil.width)
                        /\ box[2] = floordiv2(new[2] - pil.height)

\* A fill that scaled and cropped (the image was not already of the target size)
FillCropped ==
    /\ Transformed /\ TransformMode = "fill"
    /\ pil.result.ret = "image" /\ pil.image.size # TransformTarget
Corners == {"top-left", "top-right", "bottom-left", "bottom-right"}
Edges == {"top", "bottom", "left", "right"}

C5_Unchanged ==
    (Answered /\ Handled /\ ResizeAsked /\ response.status = 200
        /\ request.upload.size = <<locals.width, locals.height>>)
        => ~resampled(response.image)

\* C6: an image with an alpha channel is composited on a background colour
\* before it is encoded as JPEG; its alpha channel is never just dropped.
C6_AlphaComposited ==
    (Answered /\ response.status = 200 /\ response.format = "JPEG"
        /\ \E i \in 1..Len(response.image.ops) : response.image.ops[i].op = "convert")
        => composited(response.image)

\* C7: on each of the four POST endpoints an upload whose file name has an
\* extension outside {png, jpg, jpeg}, or none, is answered 400, and no
\* backend is invoked for it: no pool task, no call of the Bria API, no
\* subprocess, no temporary file.
C7_BadExtensionRejected ==
    (Answered /\ Handled /\ request.has_file /\ request.filename \in BadNames)
        => /\ response.status = 400
           /\ effects = NoEffects
           /\ disk = {}
           /\ images = <<>>

C7_Witness ==
    /\ Answered /\ Handled /\ request.endpoint = "/process-image"
    /\ request.filename = <<"a", ".", "g", "i", "f">>
    /\ response.status = 400 /\ response.error = "extension"

\* A background removal asked for by a request that passes validation and
\* whose upload decodes
RemovalAsked ==
    /\ Handled /\ request.has_file /\ request.filename \in GoodNames
    /\ request.upload.ok
    /\ \/ request.endpoint = "/remove-background"
       \/ /\ request.endpoint = "/process-image" /\ truthy(request.remove_bg)
          /\ truthy(request.resize) =>
                request.width \in GoodInts /\ request.height \in GoodInts

\* C8: without BRIA_API_TOKEN a valid background removal is answered 500 with
\* an error that names the missing token; no HTTP call is made and no file of
\* the request is on disk afterwards.
C8_MissingToken ==
    (Answered /\ RemovalAsked /\ config.token = "")
        => /\ response.status = 500
           /\ response.error = "BRIA_API_TOKEN"
           /\ effects.http = 0
           /\ effects.writes = 0
           /\ disk = {}

C8_Witness ==
    /\ Answered /\ RemovalAsked /\ config.token = ""
    /\ request.endpoint = "/process-image"
    /\ response.status = 500 /\ response.error = "BRIA_API_TOKEN"
    /\ effects.calls = <<Call("process_with_bria", "pool")>>

\* C9: once a POST /resize is answered, by any exit path, neither its
\* temporary input file nor its temporary output file exists.
C9_TempFilesRemoved ==
    (Answered /\ Handled /\ request.endpoint = "/resize") => disk = {}

\* C10: every image handle a request opened or created is closed exactly
\* once by the time the request is answered, on every exit path.
C10_ClosedOnce ==
    Answered => \A i \in 1..Len(images) : images[i].closes = 1

\* C11: an error raised while a request that passed validation is processed
\* is caught in the handler and answered 500 with a JSON body holding
\* 'error'; none leaves the handler.
C11_ErrorsCaught ==
    (Answered /\ Handled /\ response.status \notin {200, 400})
        => /\ response.status = 500
           /\ response.body = "json"
           /\ ~response.escaped

\* width or height is given and int() does not accept it
NonInteger(raw) == raw # Absent /\ ~int_of(raw).ok

\* C12: on /resize and /process-image a request whose width or height is
\* given and is not an integer is answered 400, whatever its other
\* parameters, and nothing is processed for it.
C12_NonIntegerRejected ==
    (Answered /\ Handled /\ request.endpoint \in {"/resize", "/process-image"}
        /\ (NonInteger(request.width) \/ NonInteger(request.height)))
        => /\ response.status = 400
           /\ images = <<>>
           /\ effects = NoEffects

\* C13: a resize request that gives only one of width and height is served:
\* the image is resized to the given dimension, the other one following the
\* aspect ratio, with no padding and no cropping.
C13_SingleDimension ==
    (Answered /\ Handled /\ ResizeAsked /\ file_error(request) = ""
        /\ request.upload.ok
        /\ \/ request.width \in GoodInts /\ request.height = Absent
           \/ request.width = Absent /\ request.height \in GoodInts)
        => /\ response.status = 200
           /\ request.width \in GoodInts =>
                response.image.size[1] = int_of(request.width).value
           /\ request.height \in GoodInts =>
                response.image.size[2] = int_of(request.height).value
           /\ \A i \in 1..Len(response.image.ops) :
                response.image.ops[i].op \notin {"paste", "crop", "extent"}

ResizeCalls == {"resize_with_pil", "resize_with_imagemagick", "resize_with_graphicsmagick"}

\* C14: no resize backend is called with a width or a height outside the
\* bound of 100 to 10000, whatever integers the request gives.
C14_Clamped ==
    (\E i \in 1..Len(effects.calls) : effects.calls[i].fn \in ResizeCalls)
        => /\ locals.width \in 100..10000
           /\ locals.height \in 100..10000

\* C15: an OPTIONS request to any of the four routes is answered 200 with an
\* empty body, also from an address outside AUTHORIZED_IPS and without a
\* file; any other request from such an address is answered 403 and no code
\* of a handler runs for it.
C15_OptionsAndDenied ==
    /\ (Answered /\ request.method = "OPTIONS")
        => /\ response = Resp(200, "empty", "", NoImage, "")
           /\ effects = NoEffects /\ images = <<>> /\ disk = {}
    /\ (request.method # "OPTIONS" /\ ~request.remote_ok)
        => /\ pc \in {"before_request", "done"}
           /\ locals = NoLocals /\ effects = NoEffects
           /\ images = <<>> /\ disk = {}
           /\ Answered => response = ErrorResp(403, "unauthorized")

C15_Witness ==
    /\ Answered /\ request.method = "OPTIONS"
    /\ ~request.remote_ok /\ ~request.has_file
    /\ request.endpoint = "/process-image"
    /\ response.status = 200 /\ response.body = "empty"

\* C16: every transform or backend call of a request (background removal,
\* face crop, resize by PIL or by a tool) runs as a task of the thread pool;
\* the thread of the request runs none itself.
C16_OnThePool ==
    \A i \in 1..Len(effects.calls) : effects.calls[i].via = "pool"

\* The work item of request r is on the queue, with a worker, or finished
Accounted(r) ==
    \/ \E i \in 1..Len(pool.work_queue) : pool.work_queue[i].future = r
    \/ \E item \in pool.workers : item.future = r
    \/ pool.futures[r] = "FINISHED"

\* The state of request r's handler and of its future ("none" before them)
HandlerAt(r) == IF r <= Len(pool.handlers) THEN pool.handlers[r] ELSE "none"
FutureAt(r) == IF r <= Len(pool.futures) THEN pool.futures[r] ELSE "none"

\* C17: with any number of concurrent requests at most 4 tasks of the pool
\* run at the same time; a task submitted while the 4 workers are busy is
\* queued, never rejected; and, every backend call ending and the scheduling
\* being fair, every submitted task runs in the end and every request that
\* waits for one is answered: no task stays pending and no handler stays
\* before its answer for ever.
C17_PoolLiveness ==
    /\ [](Cardinality(pool.workers) <= max_workers)
    /\ [](\A r \in 1..Len(pool.handlers) :
            pool.handlers[r] \in {"result", "responded"} => Accounted(r))
    /\ \A r \in 1..MaxRequests :
        /\ []<>(FutureAt(r) # "PENDING")
        /\ []<>(HandlerAt(r) \notin {"submit", "result"})

\* The four workers are busy, a fifth task waits on the queue
C17_Witness ==
    /\ pc = "pool"
    /\ Cardinality(pool.workers) = max_workers
    /\ Len(pool.work_queue) >= 1
    /\ \E r \in 1..Len(pool.handlers) : pool.handlers[r] = "result"

\* The steps of process_image_api, in the order of the code
ProcessImageSteps ==
    {<<"handler", "done">>, <<"handler", "pi_open">>,
     <<"pi_open", "pi_remove_bg">>, <<"pi_open", "pi_finally">>,
     <<"pi_remove_bg", "pi_crop_mouth">>, <<"pi_remove_bg", "pi_finally">>,
     <<"pi_crop_mouth", "pi_resize">>,
     <<"pi_resize", "pi_encode">>, <<"pi_resize", "pi_finally">>,
     <<"pi_encode", "pi_finally">>, <<"pi_finally", "done">>}
\* The operations a step appends to the history of the image it is given
StepOps(step) ==
    CASE step = "pi_remove_bg" -> {"bria"}
      [] step = "pi_crop_mouth" -> {"below_mouth"}
      [] step = "pi_resize" -> {"resize", "crop", "paste"}
      [] step = "pi_encode" -> {"convert"}
      [] OTHER -> {}
StepFlag(step) ==
    CASE step = "pi_remove_bg" -> truthy(request.remove_bg)
      [] step = "pi_crop_mouth" -> truthy(request.crop_mouth)
      [] step = "pi_resize" -> truthy(request.resize)
      [] OTHER -> TRUE
\* The image current_image names (NoImage when it names none)
CurrentImage(imgs, loc) ==
    IF loc.current_image >= 1 THEN imgs[loc.current_image].im ELSE NoImage
IsPrefix(a, b) == Len(a) <= Len(b) /\ SubSeq(b, 1, Len(a)) = a

\* One step of POST /process-image: it follows the order of the steps; a step
\* whose flag is false changes nothing; a step that yields a new image made it
\* from the image the step before left, by its own operations only
ProcessImageStep ==
    (request.endpoint = "/process-image" /\ request.method = "POST"
        /\ pc \in {p[1] : p \in ProcessImageSteps})
    => /\ <<pc, pc'>> \in ProcessImageSteps
       /\ ~StepFlag(pc) =>
            /\ images' = images /\ locals' = locals /\ effects' = effects
            /\ response' = response
       /\ (pc # "pi_open" /\ CurrentImage(images', locals') # CurrentImage(images, locals)
            /\ locals'.current_image # None) =>
            LET old == CurrentImage(images, locals).ops
                new == CurrentImage(images', locals').ops
            IN  /\ IsPrefix(old, new) /\ Len(new) > Len(old)
                /\ \A i \in (Len(old) + 1)..Len(new) : new[i].op \in StepOps(pc)
       /\ pc' = "done" => (pc = "pi_finally" \/ images = <<>>)

\* C18: in POST /process-image the steps run in the order validate and decode,
\* background removal (if remove_bg), crop below the mouth (if crop_mouth),
\* resize (if resize), encode, cleanup: no step starts before the one ahead
\* of it ended, each works on what the one before left, a step whose flag is
\* false leaves the image as it is, and cleanup comes last on every path.
C18_StepOrder ==
    /\ [][ProcessImageStep]_vars
    /\ [](( Answered /\ Handled /\ request.endpoint = "/process-image"
            /\ response.status = 200)
            => response.image = CurrentImage(images, locals))

\* The three steps asked for and done, one after the other
C18_Witness ==
    /\ Answered /\ Handled /\ request.endpoint = "/process-image"
    /\ response.status = 200 /\ Len(response.image.ops) >= 3
    /\ response.image.ops[1].op = "bria"
    /\ response.image.ops[2].op = "below_mouth"
    /\ response.image.ops[3].op = "resize"

\* C19: process_with_bria returns an image only if the token is configured,
\* the upload was answered 200, the answer holds a non-empty result_url and
\* the download was answered 200; in every other case it raises (an upload
\* answered otherwise raises with the status code and the body, a missing
\* result_url raises), and the download is never tried after a failed upload.
C19_BriaOutcomes ==
    (pc = "bria" /\ bria.done) =>
        LET r == bria.result
            reply == bria.reply
            answered == bria.token # "" /\ reply.upload_status # 0
            complete == /\ bria.token # "" /\ reply.upload_status = 200
                        /\ reply.result_url /\ reply.download_status = 200
        IN  /\ r.ret \in {"image", "raise"}
            /\ r.ret = "image" => complete
            /\ ~complete => r.ret = "raise" /\ r.image = NoImage
            /\ (answered /\ reply.upload_status # 200) =>
                    /\ r.error = "upload_status"
                    /\ r.detail = <<reply.upload_status, "response.text">>
            /\ (answered /\ reply.upload_status = 200 /\ ~reply.result_url) =>
                    r.error = "result_url"
            /\ (bria.token = "" \/ reply.upload_status # 200 \/ ~reply.result_url) =>
                    r.http <= 1

\* An upload answered 403 with a result_url all the same: the error holds the
\* status, the download was not tried
C19_Witness ==
    /\ pc = "bria" /\ bria.done /\ bria.token = "tok"
    /\ bria.reply = Reply(403, TRUE, 200, "RGBA")
    /\ bria.result.ret = "raise" /\ bria.result.http = 1
    /\ bria.result.detail[1] = 403

\* The requests that hold temporary paths and have not cleaned up yet
InFlight == {r \in 1..Len(tmp.handlers) : tmp.handlers[r].pc \in {"save", "resize", "finally"}}

\* C20: two POST /resize requests processed at the same time, even with the
\* same file name, never have the same temporary input path or the same
\* temporary output path; none reads, overwrites or deletes a temporary file
\* of another request in flight.
C20_UniquePaths ==
    pc = "tmp" =>
        /\ \A r1 \in InFlight, r2 \in InFlight :
            r1 # r2 =>
                {tmp.handlers[r1].input_path, tmp.handlers[r1].output_path}
                \cap {tmp.handlers[r2].input_path, tmp.handlers[r2].output_path} = {}
        /\ ~tmp.foreign
        /\ \A f \in tmp.files : f.owner \in InFlight

\* Two requests with the same file name, each with its two files on disk
C20_Witness ==
    /\ pc = "tmp" /\ InFlight = {1, 2}
    /\ tmp.handlers[1].filename = tmp.handlers[2].filename
    /\ tmp.handlers[1].pc = "finally" /\ tmp.handlers[2].pc = "finally"
    /\ Cardinality(tmp.files) = 4

\* The fit branch with keep-ratio has computed its scaled size: the sizes
\* differ, and the background colour is one that line 414 accepts
FitScaled ==
    /\ Transformed /\ TransformMode = "fit" /\ truthy(pil.params.KEEP_RATIO)
    /\ pil.image.size # TransformTarget
    /\ ~color_concat_raises(pil.params.BG_COLOR)

FillScaled ==
    /\ Transformed /\ TransformMode = "fill"
    /\ pil.image.size # TransformTarget

\* C22: in mode fill, for every input size, every positive target and every
\* crop position, the crop box (left, top, left + target_w, top + target_h)
\* lies inside the scaled image (int(orig_w * r), int(orig_h * r)) with
\* r = max(target_w / orig_w, target_h / orig_h): 0 <= left, 0 <= top,
\* left + target_w <= new_width and top + target_h <= new_height.
C22_FillBoxInside ==
    FillScaled =>
        LET new == pil.result.scaled
            origin == crop_origin(TransformCrop, new, pil.width, pil.height)
            left == origin[1]
            top == origin[2]
        IN  /\ 0 <= left /\ 0 <= top
            /\ left + pil.width <= new[1]
            /\ top + pil.height <= new[2]

\* A POST /resize request whose tool selection and resize step have run
ResizeStepDone ==
    /\ request.endpoint = "/resize" /\ Handled
    /\ \/ pc \in {"rs_encode", "rs_finally"}
       \/ pc = "done" /\ locals.paths

\* The backend the request names, by the stated rule: 'auto' is ImageMagick if
\* available, else GraphicsMagick if available, else PIL; a named tool that is
\* available is itself; anything else is PIL
StatedBackend ==
    LET tool == lower_word(request.tool)
    IN  CASE tool = "auto" /\ config.imagemagick -> "imagemagick"
          [] tool = "auto" /\ ~config.imagemagick /\ config.graphicsmagick
                -> "graphicsmagick"
          [] tool = "imagemagick" /\ config.imagemagick -> "imagemagick"
          [] tool = "graphicsmagick" /\ config.graphicsmagick -> "graphicsmagick"
          [] OTHER -> "pil"

\* The resize backends the request has called, in order
BackendsRun == SelectSeq(effects.calls, LAMBDA c : c.fn \in ResizeCalls)

\* C23: in POST /resize an external tool is invoked only when it was detected
\* as available at startup; with tool 'auto' the tool is ImageMagick if
\* available, else GraphicsMagick if available, else PIL; a named tool that is
\* unavailable, and any unrecognised name, is served by PIL; no request runs
\* two backends, and a request that reaches the resize step runs exactly the
\* one selected (the PIL branch calls resize_with_pil once the upload has been
\* opened, so an upload that PIL cannot open ends the request before the call).
C23_ToolSelection ==
    /\ request.endpoint = "/resize" =>
        /\ Len(BackendsRun) <= 1
        /\ effects.subprocess <= 1
        /\ \A i \in 1..Len(BackendsRun) :
            /\ BackendsRun[i].fn = "resize_with_imagemagick" => config.imagemagick
            /\ BackendsRun[i].fn = "resize_with_graphicsmagick" => config.graphicsmagick
    /\ ResizeStepDone =>
        /\ effects.subprocess = (IF StatedBackend = "pil" THEN 0 ELSE 1)
        /\ BackendsRun =
            IF StatedBackend = "pil" /\ ~request.upload.ok THEN <<>>
            ELSE <<Call("resize_with_" \o StatedBackend, "inline")>>

\* A request that names ImageMagick where only GraphicsMagick is available, or
\* an unknown tool, answered 200 after PIL alone has run
C23_Witness ==
    /\ ResizeStepDone /\ pc = "done" /\ response.status = 200
    /\ lower_word(request.tool) \in {"imagemagick", "gimp"}
    /\ ~config.imagemagick /\ config.graphicsmagick
    /\ BackendsRun = <<Call("resize_with_pil", "inline")>>
    /\ effects.subprocess = 0

====
